---------------------------- MODULE Spec2Model ----------------------------
(***************************************************************************)
(* Model of the Unitree L2 LiDAR controller of robotour2025:               *)
(*   src/lidar/lidar_controller.hpp  LidarController (start/stop/setMode/  *)
(*                                   connect/getDistance, loopRead worker) *)
(*   src/lidar/point_processing.hpp  LidarPointProcessing (transform,      *)
(*                                   self-occlusion box, ring buffer,      *)
(*                                   distance query)                       *)
(*   src/lidar/raw_logger.hpp        LidarRawLogger (binary raw log)       *)
(*   src/lidar/ply_logger.hpp        PLYLogger (snapshot logger thread)    *)
(*                                                                         *)
(* The specifications share the variables:                                 *)
(*   Spec     the controller with its caller threads and worker threads,   *)
(*            every unlocked access interleaved;                           *)
(*   FairSpec Spec under fair scheduling of the threads;                   *)
(*   SpecPP   the point-processing engine driven sequentially              *)
(*            (updateCloud / clear / distance as whole calls);             *)
(*   SpecRaw  the raw logger driven sequentially;                          *)
(*   SpecLoop the worker loop alone, packet by packet;                     *)
(*   SpecPly  the snapshot logger with its thread and the clock;           *)
(*   FairSpecPly  SpecPly under fair scheduling and passing time.          *)
(*                                                                         *)
(* Units: coordinates are integers.  Sensor-frame points are given in      *)
(* centimetres, so that the 100x scale of transformMatrix (m -> cm) is     *)
(* the choice of unit; robot-frame coordinates are whole centimetres.      *)
(***************************************************************************)
EXTENDS Integers, Sequences, FiniteSets, TLC

(***************************************************************************)
(* Bounds of the model.                                                    *)
(***************************************************************************)
\* kCapacity is 1u << 16 in the source; the model scales the ring buffer
\* down.  head_ is a uint16_t, whose range 2^16 equals kCapacity, so the
\* wrap of head_ is the wrap at kCapacity (HeadModulus).
kCapacity == 2
\* number of controller operations invoked in one behaviour
MaxCalls == 3
\* number of start() calls that get as far as the flush window
MaxStarts == 2
\* number of samples pushed after a clear() that SpecPP follows
MaxPushes == 5
\* longest cloud SpecPP feeds to updateCloud
MaxCloudLen == 2
\* number of write calls on one raw logger that SpecRaw follows
MaxWrites == 3
\* sizeof of the smallest packet struct, scaled down (bytes)
PacketBytes == 2
\* the steady clock of SpecPly runs from 0 to MaxPlyTime (seconds): past the
\* first flush interval
MaxPlyTime == 12
\* number of push() calls on the snapshot logger that SpecPly follows
MaxPlyPushes == 2
\* number of packets the worker loop of SpecLoop pulls
MaxPulls == 3

HeadModulus == kCapacity

\* the caller threads of the controller
Threads == {1, 2}
Workers == 1..MaxStarts

(***************************************************************************)
(* Point processing: samples, transform, self-occlusion box.               *)
(***************************************************************************)
\* LidarPointProcessing::Sample
Sample(x, y, z, intensity, time, ring) ==
    [x |-> x, y |-> y, z |-> z, intensity |-> intensity, time |-> time, ring |-> ring]

\* std::array<Sample, kCapacity> buffer_{} : value-initialised entries
ZeroSample == Sample(0, 0, 0, 0, 0, 0)

\* unilidar_sdk2::PointUnitree as read by transformCloud
Point(x, y, z, intensity, time, ring) ==
    [x |-> x, y |-> y, z |-> z, intensity |-> intensity, time |-> time, ring |-> ring]

\* Fixed-point denominator of the rotation entries below.
FixScale == 1000

\* transformMatrix(): Tx = T * Ms * Mz * Ry * Rz with th_z = -25.5 deg,
\* th_y = -47.5 deg, T = Mz = identity, Ms = 100 (absorbed in the unit).
\* Entries of Ry * Rz times FixScale, rounded.
transformMatrix ==
    << << 610, -291, 737 >>,
       << 431,  903,   0 >>,
       << -665, 317, 676 >> >>

\* q4 = T * p ; q = q4.head<3>()  (row i of the product)
TransformCoord(i, pt) ==
    (transformMatrix[i][1] * pt.x + transformMatrix[i][2] * pt.y
        + transformMatrix[i][3] * pt.z) \div FixScale

\* ignoreBox(x, y): inside the chassis box, in the robot frame
ignoreBox(x, y) ==
    (y > -20 /\ y < 20 /\ x < 20 /\ x > -50)

\* transformCloud: the points of src, transformed, those in the box dropped,
\* intensity / time / ring copied.
RECURSIVE transformPoints(_)
transformPoints(pts) ==
    IF pts = << >> THEN << >>
    ELSE LET pt == Head(pts)
             qx == TransformCoord(1, pt)
             qy == TransformCoord(2, pt)
             qz == TransformCoord(3, pt)
         IN  IF ignoreBox(qx, qy)
             THEN transformPoints(Tail(pts))
             ELSE << Point(qx, qy, qz, pt.intensity, pt.time, pt.ring) >>
                    \o transformPoints(Tail(pts))

transformCloud(src) ==
    [stamp |-> src.stamp, points |-> transformPoints(src.points)]

\* updateCloud, lines 40-51: the Sample built from a robot-frame point
SampleOf(base_stamp, pt) ==
    Sample(pt.x, pt.y, pt.z, pt.intensity, base_stamp + pt.time, pt.ring)

\* updateCloud: the samples it hands to pushSample, in order
SamplesOfCloud(cloud_in) ==
    LET cloud_robot == transformCloud(cloud_in)
    IN  [i \in 1..Len(cloud_robot.points) |->
            SampleOf(cloud_robot.stamp, cloud_robot.points[i])]


(***************************************************************************)
(* Ring buffer and distance query, as functions of the engine's state      *)
(* pp = [buffer, head, size].                                              *)
(***************************************************************************)
Slots == 0..(kCapacity - 1)

\* a default-constructed LidarPointProcessing
EmptyPP == [buffer |-> [i \in Slots |-> ZeroSample], head |-> 0, size |-> 0]

\* mutant of pushSample: the write goes to the slot of the logical size
\* (an append that stops moving once the buffer is full)
pushSampleNoWrap(pp, s) ==
    [buffer |-> [pp.buffer EXCEPT ![IF pp.size < kCapacity THEN pp.size ELSE kCapacity - 1] = s],
     head   |-> (pp.head + 1) % HeadModulus,
     size   |-> IF pp.size < kCapacity THEN pp.size + 1 ELSE pp.size]

\* pushSample, lines 193-200: write at head_, ++head_ (uint16_t wrap),
\* size_ saturates at kCapacity
pushSample(pp, s) ==
    [buffer |-> [pp.buffer EXCEPT ![pp.head] = s],
     head   |-> (pp.head + 1) % HeadModulus,
     size   |-> IF pp.size < kCapacity THEN pp.size + 1 ELSE pp.size]

\* mutant of line 203: the buffer is dumped by every push that leaves it full
dumpWhenFull(pp) == pp.size = kCapacity

\* pushSample, line 203: the condition under which the push dumps the buffer
dumpTriggered(pp) == pp.size = kCapacity /\ pp.head = 0

\* dumpBufferToPly, lines 246-284: nothing for N = 0 (249-251) or when the
\* file cannot be opened (254-258); otherwise "element vertex N" and the
\* slots 0..N-1 in index order (275-283)
dumpBufferToPly(pp, opened) ==
    LET N == IF pp.size < kCapacity THEN pp.size ELSE kCapacity
    IN  IF N = 0 \/ ~opened
        THEN [file |-> FALSE, vertex |-> N, lines |-> << >>]
        ELSE [file |-> TRUE, vertex |-> N, lines |-> [i \in 1..N |-> pp.buffer[i - 1]]]

\* clear(): head_ = 0; size_ = 0; buffer_ is left as it is
clear(pp) == [pp EXCEPT !.head = 0, !.size = 0]

\* updateCloud, lines 43-53: pushSample for each sample, in order
RECURSIVE pushAll(_, _)
pushAll(pp, samples) ==
    IF samples = << >> THEN pp
    ELSE pushAll(pushSample(pp, Head(samples)), Tail(samples))

\* the dumps made by the pushes of one updateCloud (lines 43-53, 203-205):
\* push number k of the call dumps the buffer as that push left it; opens
\* is the set of pushes for which the dump file can be opened
RECURSIVE dumpsOfPushes(_, _, _, _)
dumpsOfPushes(pp, samples, k, opens) ==
    IF samples = << >> THEN << >>
    ELSE LET after == pushSample(pp, Head(samples))
             here  == IF dumpTriggered(after)
                      THEN << [push |-> k, dump |-> dumpBufferToPly(after, k \in opens)] >>
                      ELSE << >>
         IN  here \o dumpsOfPushes(after, Tail(samples), k + 1, opens)

\* mutant of updateCloud: the cloud is pushed untransformed and unfiltered
updateCloudRaw(pp, cloud_in) ==
    pushAll(pp, [i \in 1..Len(cloud_in.points) |->
                    SampleOf(cloud_in.stamp, cloud_in.points[i])])

updateCloud(pp, cloud_in) == pushAll(pp, SamplesOfCloud(cloud_in))

\* float min_sq = 5000.0 (line 68) and return 5000.0f (line 86)
NoObstacle == 5000
\* return -1.0f (line 63)
NotReady == -1

\* std::sqrt on the values the scan can hand it, rounded down to whole cm
RECURSIVE SqrtFrom(_, _)
SqrtFrom(r, n) == IF (r + 1) * (r + 1) > n THEN r ELSE SqrtFrom(r + 1, n)
Sqrt(n) == SqrtFrom(0, n)

\* distance, lines 71-83: the scan of slots i..kCapacity-1, carrying
\* (min_sq, found)
RECURSIVE scan(_, _, _, _, _)
scan(buffer, i, z_min, z_max, acc) ==
    IF i >= kCapacity THEN acc
    ELSE LET p  == buffer[i]
             d2 == p.x * p.x + p.y * p.y
         IN  IF p.z < z_min \/ p.z > z_max
             THEN scan(buffer, i + 1, z_min, z_max, acc)
             ELSE IF d2 < acc.min_sq
                  THEN scan(buffer, i + 1, z_min, z_max, [min_sq |-> d2, found |-> TRUE])
                  ELSE scan(buffer, i + 1, z_min, z_max, acc)

\* distance(z_min, z_max), lines 60-90
distance(pp, z_min, z_max) ==
    IF pp.size < kCapacity THEN NotReady
    ELSE LET r == scan(pp.buffer, 0, z_min, z_max, [min_sq |-> NoObstacle, found |-> FALSE])
         IN  IF ~r.found THEN NoObstacle ELSE Sqrt(r.min_sq)

\* default arguments of distance(): z_min = -50.0f, z_max = 80.0f
DefaultZMin == -50
DefaultZMax == 80

(***************************************************************************)
(* Raw logger (raw_logger.hpp): the file as a sequence of bytes.           *)
(***************************************************************************)
\* enum class RawRecordType : uint8_t
RawPoint == 1
RawImu == 2
RawVersion == 3
RawRecordTypes == {RawPoint, RawImu, RawVersion}

\* the little-endian bytes of n in a field of width bytes (the host's layout
\* of the uint64_t and uint32_t members of the packed header)
RECURSIVE LE(_, _)
LE(n, width) ==
    IF width = 0 THEN << >> ELSE << n % 256 >> \o LE(n \div 256, width - 1)

\* openStream, lines 153-154: const char magic[8] = "L2RAW01\0"
RawMagic == << 76, 50, 82, 65, 87, 48, 49, 0 >>

\* LogRecordHeader hdr{} with type, mono_ts_ns, payload_size set (lines
\* 174-177), as the 16 bytes ofs_.write puts out: type, reserved[3] = 0,
\* mono_ts_ns (8 bytes), payload_size (4 bytes)
LogRecordHeader(type, mono_ts_ns, payload_size) ==
    << type, 0, 0, 0 >> \o LE(mono_ts_ns, 8) \o LE(payload_size, 4)

\* mutant of writeAnyPacket: the upper bound of the size check is missing
\* (what lies behind the packet object is not modelled: the object is written)
writeAnyPacketNoUpperCheck(file, type, pkt_data, packet_size_field, packet_object_size, mono_ts_ns) ==
    IF packet_size_field = 0 THEN file
    ELSE file \o LogRecordHeader(type, mono_ts_ns, packet_size_field)
              \o SubSeq(pkt_data, 1, IF packet_size_field > packet_object_size
                                     THEN packet_object_size ELSE packet_size_field)

\* mutant of writeAnyPacket: the whole packet object is written as payload
writeAnyPacketWholeObject(file, type, pkt_data, packet_size_field, packet_object_size, mono_ts_ns) ==
    IF packet_size_field = 0 \/ packet_size_field > packet_object_size THEN file
    ELSE file \o LogRecordHeader(type, mono_ts_ns, packet_size_field)
              \o SubSeq(pkt_data, 1, packet_object_size)

\* writeAnyPacket, lines 157-182, on an open stream: the file after the call
writeAnyPacket(file, type, pkt_data, packet_size_field, packet_object_size, mono_ts_ns) ==
    IF packet_size_field = 0 \/ packet_size_field > packet_object_size THEN file
    ELSE file \o LogRecordHeader(type, mono_ts_ns, packet_size_field)
              \o SubSeq(pkt_data, 1, packet_size_field)

\* sizeof(pkt) of the three packet structs, scaled down
PacketObjectSize(type) ==
    IF type = RawPoint THEN PacketBytes + 1 ELSE PacketBytes

\* the bytes of a packet object of the type (one content per type, every
\* byte different)
PacketObject(type) ==
    [i \in 1..PacketObjectSize(type) |-> (40 * type + 7 * i) % 256]

(***************************************************************************)
(* Snapshot logger (ply_logger.hpp, PLYLogger).                            *)
(***************************************************************************)
\* loop(), line 69: constexpr auto FLUSH_INTERVAL = seconds(10)
FLUSH_INTERVAL == 10
\* loop(), line 72: cv_.wait_for(lk, seconds(1))
PlyWaitSeconds == 1

\* mutant of line 72: cv_.wait(lk), a wait without a timeout
waitNeverTimesOut(slept) == FALSE

\* line 72, cv_.wait_for(lk, seconds(1)): the wait has lasted its timeout
waitTimedOut(slept) == slept >= PlyWaitSeconds

\* the logger thread in cv_.wait_for (lines 71-72), having slept `slept`
\* seconds; mtx_ is released while it waits
PlyWaiting(slept) == [at |-> "wait", now |-> 0, local |-> << >>, slept |-> slept]

\* the logger thread at another position of loop(): "exit" (the while of
\* line 70 has ended), "final" (line 84, under the lock_guard of line 83),
\* "done" (loop() has returned)
PlyAt(where) == [at |-> where, now |-> 0, local |-> << >>, slept |-> 0]

\* line 70, while (running_): where the thread goes when an iteration ends
PlyNextIteration(running) == IF running THEN PlyWaiting(0) ELSE PlyAt("exit")

\* the logger thread in writePLY(local) (line 78), mtx_ unlocked, with the
\* `now` of this iteration (line 73)
PlyWriting(now, local) == [at |-> "write", now |-> now, local |-> local, slept |-> 0]

\* writePLY, line 51: total = the sum of the clouds' point counts
RECURSIVE PlyTotal(_)
PlyTotal(clouds) ==
    IF clouds = << >> THEN 0 ELSE Len(Head(clouds).points) + PlyTotal(Tail(clouds))

\* writePLY, line 60: the line of a point, "%f %f %f %f %u" of x, y, z,
\* intensity, ring (the point's time is not written)
PlyLine(p) == [x |-> p.x, y |-> p.y, z |-> p.z, intensity |-> p.intensity, ring |-> p.ring]

\* writePLY, lines 58-62: the point lines, cloud by cloud, point by point
RECURSIVE PlyLines(_)
PlyLines(clouds) ==
    IF clouds = << >> THEN << >>
    ELSE [i \in 1..Len(Head(clouds).points) |-> PlyLine(Head(clouds).points[i])]
            \o PlyLines(Tail(clouds))

\* mutant of the header line: the number of clouds is printed
PlyCloudCount(clouds) == Len(clouds)

\* writePLY, line 56: "element vertex %zu" of total
PlyVertexCount(clouds) == PlyTotal(clouds)

\* writePLY, lines 41-48 and 53: the file name is ts_now(), the wall-clock
\* time at a resolution of one second (the clocks of the model tick together)
PlyFileName(now) == now

\* writePLY(clouds) at time now, lines 50-65: the files written so far with
\* the one this call writes, if it writes one (fopen succeeds)
writePLY(files, clouds, now, flushed, periodic) ==
    IF PlyTotal(clouds) = 0 THEN files
    ELSE Append(files, [at |-> now, flushed |-> flushed, clouds |-> clouds,
                        periodic |-> periodic, name |-> PlyFileName(now),
                        vertex |-> PlyVertexCount(clouds), lines |-> PlyLines(clouds)])

\* loop(), line 74: now - last_flush_ >= FLUSH_INTERVAL && !buffer_.empty()
flushDue(now, last, buffer) == now - last >= FLUSH_INTERVAL /\ buffer # << >>

(***************************************************************************)
(* State.                                                                  *)
(***************************************************************************)
VARIABLES
    pc,          \* caller thread -> its position in the controller method it runs
    res,         \* caller thread -> Result of its last returned call
    pre,         \* caller thread -> what it found when it invoked its current/last call
    mtx,         \* mtx_: 0 when free, else the caller thread that holds it
    reader_,     \* reader_: "null" or "ready" (created and initializeUDP returned 0)
    running_,    \* running_
    worker_,     \* worker_: 0 when not joinable, else the worker thread it refers to
    rot,         \* the last rotation command the transport received
    fault,       \* "none", or why the process was terminated
    ncalls,      \* controller operations invoked so far
    nstarts,     \* start() calls invoked so far
    wpc,         \* worker thread -> its position in loopRead
    wq,          \* worker thread -> samples of the cloud in updateCloud still to push
    wreg,        \* worker thread -> the value of size_ its pushSample has read (0 outside pushSample)
    buffer_,     \* point_processing_.buffer_
    head_,       \* point_processing_.head_
    size_,       \* point_processing_.size_
    period,      \* history: the Running period, [st, by]
    epochPushes, \* history: pushSample calls completed since the worker was spawned
    slotBy,      \* history: slot -> the worker thread that wrote it since the last
                 \*          completed clear(), 0 when none did
    pushed,      \* history (SpecPP): samples pushed since the last clear()
    obs,         \* history (SpecPP): the last engine call and what it returned
    modeCmd,     \* history: the last setLidarWorkMode call, [given, sent, outcome]
    rawFile,     \* SpecRaw: the bytes of the raw logger's file
    rawCalls,    \* history (SpecRaw): the write calls made on the raw logger, in order
    plyNow,      \* SpecPly: steady_clock::now(), whole seconds since the logger was built
    plyBuffer,   \* SpecPly: PLYLogger::buffer_, the point counts of the clouds in it
    last_flush_, \* SpecPly: PLYLogger::last_flush_
    plyPc,       \* SpecPly: the logger thread's position in loop(), [at, now, local, slept]
    plyFiles,    \* SpecPly: the writes of output files, in order, [at, flushed, clouds,
                 \*          periodic, name, vertex, lines]
    plyPushes,   \* history (SpecPly): the push() calls made, [at, points, cloud]
    plyRunning,  \* SpecPly: PLYLogger::running_
    plyMtx,      \* SpecPly: PLYLogger::mtx_, "free", or "loop" when the logger thread
                 \*          holds it outside wait_for (push() holds it within one step)
    plyStop,     \* SpecPly: the callers of PLYLogger::stop(), [at, pushed, again, woke]
    lpc,         \* SpecLoop: the worker's position in an iteration of loopRead and the
                 \*           packet it handles, [at, tag, size, ts]
    pulls,       \* history (SpecLoop): the packets runParse returned, in order
    imuN,        \* SpecLoop: ImuStats S.n of processIMUData
    monoNow      \* SpecLoop: the last reading of steady_clock (ns, scaled)

ctlVars  == << pc, res, pre, mtx, reader_, running_, worker_, rot, fault, ncalls, nstarts >>
wVars    == << wpc, wq, wreg >>
ppVars   == << buffer_, head_, size_ >>
histVars == << period, epochPushes, slotBy >>
seqVars  == << pushed, obs >>
rawVars  == << rawFile, rawCalls >>
plyVars  == << plyNow, plyBuffer, last_flush_, plyPc, plyFiles, plyPushes,
               plyRunning, plyMtx, plyStop >>
loopVars == << lpc, pulls, imuN, monoNow >>
extVars  == << modeCmd, rawVars, plyVars, loopVars >>
vars     == << ctlVars, wVars, ppVars, histVars, seqVars, extVars >>

\* the engine's state as the record the operators above work on
PP == [buffer |-> buffer_, head |-> head_, size |-> size_]

\* a worker thread that has been spawned and has not left loopRead
Alive(w) == wpc[w] \notin {"unborn", "exited"}
AliveWorkers == {w \in Workers : Alive(w)}

crashed == fault # "none"

NoPeriod == [st |-> "none", by |-> 0]

\* what a call returned: the method, its outcome, and for getDistance dist_out
Result(op, outcome, dist) == [op |-> op, out |-> outcome, dist |-> dist]
NoResult == Result("none", "none", 0)

\* no slot has been written since the last clear()
NoSlotWritten == [i \in Slots |-> 0]

\* the worker at a position of one iteration of loopRead, with the tag
\* runParse returned, the packet_size its header declares and mono_ts_ns
LoopAt(where, tag, size, ts) == [at |-> where, tag |-> tag, size |-> size, ts |-> ts]

\* no setLidarWorkMode call has been made
NoModeCmd == [given |-> 0, sent |-> 0, outcome |-> "none"]

Init ==
    /\ pc = [t \in Threads |-> "idle"]
    /\ res = [t \in Threads |-> NoResult]
    /\ pre = [t \in Threads |-> [running |-> FALSE, rot |-> "none", alive |-> {}, threw |-> FALSE]]
    /\ mtx = 0
    /\ reader_ = "null"
    /\ running_ = FALSE
    /\ worker_ = 0
    /\ rot = "none"
    /\ fault = "none"
    /\ ncalls = 0
    /\ nstarts = 0
    /\ wpc = [w \in Workers |-> "unborn"]
    /\ wq = [w \in Workers |-> << >>]
    /\ wreg = [w \in Workers |-> 0]
    /\ buffer_ = EmptyPP.buffer
    /\ head_ = 0
    /\ size_ = 0
    /\ period = NoPeriod
    /\ epochPushes = 0
    /\ slotBy = NoSlotWritten
    /\ pushed = << >>
    /\ obs = [op |-> "none"]
    /\ modeCmd = NoModeCmd
    /\ rawFile = RawMagic
    /\ rawCalls = << >>
    /\ plyNow = 0
    /\ plyBuffer = << >>
    /\ last_flush_ = 0
    /\ plyPc = PlyWaiting(0)
    /\ plyFiles = << >>
    /\ plyPushes = << >>
    /\ plyRunning = TRUE
    /\ plyMtx = "free"
    /\ plyStop = [at |-> "idle", pushed |-> 0, again |-> FALSE, woke |-> "none"]
    /\ lpc = LoopAt("pull", "none", 0, 0)
    /\ pulls = << >>
    /\ imuN = 0
    /\ monoNow = 0

(***************************************************************************)
(* Helpers of the caller-thread actions.                                   *)
(***************************************************************************)
\* a caller thread enters a controller method; pre keeps what the properties
\* of that method refer to: running_ on entry, for start() the rotation
\* command in force, for stop() the worker threads alive, and whether a
\* transport call of the method has thrown into a handler that swallows it
Invoke(t, op) ==
    /\ ~crashed
    /\ pc[t] = "idle"
    /\ ncalls < MaxCalls
    /\ ncalls' = ncalls + 1
    /\ pre' = [pre EXCEPT ![t] =
                 [running |-> running_,
                  rot     |-> IF op = "start" THEN rot ELSE "none",
                  alive   |-> IF op = "stop" THEN AliveWorkers ELSE {},
                  threw   |-> FALSE]]

\* a step inside a method
At(t, where) == ~crashed /\ pc[t] = where

Goto(t, where) == pc' = [pc EXCEPT ![t] = where]

Return(t, op, outcome) ==
    /\ pc' = [pc EXCEPT ![t] = "idle"]
    /\ res' = [res EXCEPT ![t] = Result(op, outcome, 0)]

\* what the transport does in one ensureReaderLocked call: whether
\* createUnitreeLidarReader returns a reader, and the status of initializeUDP
InitFailed == 1
ReaderOutcomes == {[created |-> c, rc |-> x] : c \in BOOLEAN, x \in {0, InitFailed}}

\* mutant of ensureReaderLocked: a reader whose initializeUDP failed is kept
ensureReaderKeepsFailed(created, rc) ==
    IF reader_ # "null" THEN reader_
    ELSE IF ~created THEN "null"
    ELSE IF rc # 0 THEN "uninitialised"
    ELSE "ready"

\* mutant of ensureReaderLocked: without the early return of line 230, the
\* session is created and initialised anew on every call
ensureReaderAnew(created, rc) ==
    IF ~created THEN "null"
    ELSE IF rc # 0 THEN "null"
    ELSE "ready"

\* ensureReaderLocked, lines 229-255: reader_ when it returns.  An existing
\* reader is kept (line 230); a nullptr from createUnitreeLidarReader leaves
\* reader_ null (232-236); a nonzero rc makes it reader_.reset() (248-252).
ensureReaderAfter(created, rc) ==
    IF reader_ # "null" THEN reader_
    ELSE IF ~created THEN "null"
    ELSE IF rc # 0 THEN "null"
    ELSE "ready"

\* the values reader_ can have when ensureReaderLocked returns; it returns
\* true exactly when reader_ is then "ready"
ensureReaderLocked ==
    {ensureReaderAfter(o.created, o.rc) : o \in ReaderOutcomes}

(***************************************************************************)
(* LidarController::start, lines 74-128.                                   *)
(***************************************************************************)
\* mutant of lines 77-80: a start() on a running controller goes on to
\* rotation and flush
StartRestarts(t) == Goto(t, "start_rot") /\ UNCHANGED << res, reader_, mtx >>

\* lines 77-80: if (running_) return true
StartAlreadyRunning(t) == Return(t, "start", "already") /\ UNCHANGED << reader_, mtx >>

\* mutant of line 90: the lock_guard lives to the end of start()
StartKeepsLock(t) == t

\* line 90: the block of the lock_guard ends, mtx_ is released before the
\* rotation command and the flush window
StartScopeEnd(t) == 0

\* lines 75-90: under mtx_, return true if running_, else ensureReaderLocked
StartBegin(t) ==
    /\ Invoke(t, "start")
    /\ nstarts < MaxStarts
    /\ nstarts' = nstarts + 1
    /\ mtx = 0
    /\ IF running_
       THEN StartAlreadyRunning(t)
       ELSE \E r \in ensureReaderLocked :
                /\ reader_' = r
                /\ IF r = "ready"
                   THEN Goto(t, "start_rot") /\ UNCHANGED res /\ mtx' = StartScopeEnd(t)
                   ELSE Return(t, "start", "TransportInit") /\ UNCHANGED mtx
    /\ UNCHANGED << running_, worker_, rot, fault >>
    /\ UNCHANGED << wVars, ppVars, histVars, seqVars, extVars >>

\* lines 92-100: r = reader_.get() without the lock, then startLidarRotation,
\* which succeeds or throws
StartRotate(t) ==
    /\ At(t, "start_rot")
    /\ IF reader_ = "null"
       THEN Return(t, "start", "TransportInit") /\ UNCHANGED rot
       ELSE \/ rot' = "start" /\ Goto(t, "start_flush") /\ UNCHANGED res
            \/ UNCHANGED rot /\ Return(t, "start", "RotationStart")
    /\ UNCHANGED << pre, mtx, reader_, running_, worker_, fault, ncalls, nstarts >>
    /\ UNCHANGED << wVars, ppVars, histVars, seqVars, extVars >>

\* lines 102-106: the flush window (runParse for 2 s, then clearBuffer),
\* without the lock; a transport call may throw
StartFlush(t) ==
    /\ At(t, "start_flush")
    /\ \/ Goto(t, "start_commit") /\ UNCHANGED res
       \/ Return(t, "start", "RotationStart")
    /\ UNCHANGED << pre, mtx, reader_, running_, worker_, rot, fault, ncalls, nstarts >>
    /\ UNCHANGED << wVars, ppVars, histVars, seqVars, extVars >>

\* the worker thread the next std::thread constructor creates
NextWorker == CHOOSE w \in Workers : wpc[w] = "unborn" /\ \A v \in Workers : v < w => wpc[v] # "unborn"

\* mutant of StartCommit's locking: lines 112-113 run without mtx_
CommitNeedsNoLock(t) == TRUE

\* lines 108-114 take mtx_
CommitLock(t) == mtx = 0

\* line 113, worker_ = std::thread(...): move-assignment to a joinable
\* std::thread calls std::terminate
AssignWorker(w) ==
    IF worker_ # 0
    THEN fault' = "terminate_joinable_worker" /\ UNCHANGED worker_
    ELSE worker_' = w /\ UNCHANGED fault

\* lines 108-114: under mtx_, running_ = true and worker_ = std::thread(loopRead).
\* The std::thread constructor starts the new thread before the assignment;
\* it can also throw std::system_error, which the catch at line 117 turns
\* into return false with running_ left true.
StartCommit(t) ==
    /\ At(t, "start_commit")
    /\ CommitLock(t)
    /\ running_' = TRUE
    /\ \/ /\ wpc' = [wpc EXCEPT ![NextWorker] = "init"]
          /\ AssignWorker(NextWorker)
          /\ Goto(t, "start_clear")
          /\ period' = [st |-> "starting", by |-> t]
          /\ epochPushes' = 0
          /\ UNCHANGED res
       \/ /\ Return(t, "start", "ThreadSpawn")
          /\ UNCHANGED << wpc, worker_, fault, period, epochPushes >>
    /\ UNCHANGED << pre, mtx, reader_, rot, ncalls, nstarts >>
    /\ UNCHANGED << wq, wreg, ppVars, slotBy, seqVars, extVars >>

\* line 125, point_processing_.clear(), first store: head_ = 0.
\* No lock is held and the worker is already running.
StartClearHead(t) ==
    /\ At(t, "start_clear")
    /\ head_' = 0
    /\ Goto(t, "start_clear2")
    /\ UNCHANGED << res, pre, mtx, reader_, running_, worker_, rot, fault, ncalls, nstarts >>
    /\ UNCHANGED << wVars, buffer_, size_, histVars, seqVars, extVars >>

\* line 125, second store: size_ = 0; then return true
StartClearSize(t) ==
    /\ At(t, "start_clear2")
    /\ size_' = 0
    /\ Return(t, "start", "ok")
    /\ period' = IF period = [st |-> "starting", by |-> t]
                 THEN [st |-> "started", by |-> t] ELSE period
    /\ slotBy' = NoSlotWritten
    /\ UNCHANGED << pre, mtx, reader_, running_, worker_, rot, fault, ncalls, nstarts >>
    /\ UNCHANGED << wVars, buffer_, head_, epochPushes, seqVars, extVars >>

(***************************************************************************)
(* LidarController::stop, lines 132-163.                                   *)
(***************************************************************************)
\* lines 134-138: under mtx_, return if not running_, else running_ = false
StopBegin(t) ==
    /\ Invoke(t, "stop")
    /\ mtx = 0
    /\ IF ~running_
       THEN /\ Return(t, "stop", "notrunning")
            /\ UNCHANGED << running_, period >>
       ELSE /\ running_' = FALSE
            /\ Goto(t, "stop_join")
            /\ period' = NoPeriod
            /\ UNCHANGED res
    /\ UNCHANGED << mtx, reader_, worker_, rot, fault, nstarts >>
    /\ UNCHANGED << wVars, ppVars, epochPushes, slotBy, seqVars, extVars >>

\* line 141: if (worker_.joinable()), without the lock
StopJoinable(t) ==
    /\ At(t, "stop_join")
    /\ Goto(t, IF worker_ # 0 THEN "stop_joining" ELSE "stop_rot")
    /\ UNCHANGED << res, pre, mtx, reader_, running_, worker_, rot, fault, ncalls, nstarts >>
    /\ UNCHANGED << wVars, ppVars, histVars, seqVars, extVars >>

\* std::thread::join blocks until the thread has finished
JoinMayReturn(w) == wpc[w] = "exited"

\* line 142: worker_.join(), without the lock.  It returns once the thread
\* has finished and leaves worker_ not joinable; on a worker_ that another
\* caller has joined meanwhile it throws std::system_error out of stop().
StopJoin(t) ==
    /\ At(t, "stop_joining")
    /\ IF worker_ = 0
       THEN Return(t, "stop", "exception") /\ UNCHANGED worker_
       ELSE /\ JoinMayReturn(worker_)
            /\ worker_' = 0
            /\ Goto(t, "stop_rot")
            /\ UNCHANGED res
    /\ UNCHANGED << pre, mtx, reader_, running_, rot, fault, ncalls, nstarts >>
    /\ UNCHANGED << wVars, ppVars, histVars, seqVars, extVars >>

\* mutant of the handler at lines 151-153: the exception leaves stop()
StopRotatePropagates(t) == Return(t, "stop", "exception")

\* lines 151-153: catch (...) swallows the exception, stop() goes on to step 4
StopRotateCaught(t) == Goto(t, "stop_clear") /\ UNCHANGED res

\* lines 146-153: stopLidarRotation on reader_.get(); the call returns, or
\* it throws (the command not delivered) and the exception is swallowed
StopRotate(t) ==
    /\ At(t, "stop_rot")
    /\ IF reader_ = "null"
       THEN UNCHANGED << rot, pre, res >> /\ Goto(t, "stop_clear")
       ELSE \/ rot' = "stop" /\ Goto(t, "stop_clear") /\ UNCHANGED << pre, res >>
            \/ /\ UNCHANGED rot
               /\ pre' = [pre EXCEPT ![t].threw = TRUE]
               /\ StopRotateCaught(t)
    /\ UNCHANGED << mtx, reader_, running_, worker_, fault, ncalls, nstarts >>
    /\ UNCHANGED << wVars, ppVars, histVars, seqVars, extVars >>

\* lines 156-160, under mtx_: point_processing_.clear(), first store
StopClearHead(t) ==
    /\ At(t, "stop_clear")
    /\ mtx = 0
    /\ mtx' = t
    /\ head_' = 0
    /\ Goto(t, "stop_clear2")
    /\ UNCHANGED << res, pre, reader_, running_, worker_, rot, fault, ncalls, nstarts >>
    /\ UNCHANGED << wVars, buffer_, size_, histVars, seqVars, extVars >>

\* lines 156-160: second store, mtx_ released, stop() returns
StopClearSize(t) ==
    /\ At(t, "stop_clear2")
    /\ size_' = 0
    /\ mtx' = 0
    /\ Return(t, "stop", "stopped")
    /\ slotBy' = NoSlotWritten
    /\ UNCHANGED << pre, reader_, running_, worker_, rot, fault, ncalls, nstarts >>
    /\ UNCHANGED << wVars, buffer_, head_, period, epochPushes, seqVars, extVars >>

(***************************************************************************)
(* LidarController::setMode, connect, getDistance.                         *)
(***************************************************************************)
\* lines 189-193: take mtx_ (held to the end of setMode); refuse if running_
SetModeBegin(t) ==
    /\ Invoke(t, "setMode")
    /\ mtx = 0
    /\ IF running_
       THEN Return(t, "setMode", "InvalidState") /\ UNCHANGED mtx
       ELSE mtx' = t /\ Goto(t, "setMode_ensure") /\ UNCHANGED res
    /\ UNCHANGED << reader_, running_, worker_, rot, fault, nstarts >>
    /\ UNCHANGED << wVars, ppVars, histVars, seqVars, extVars >>

\* lines 196-199: ensureReaderLocked, still under mtx_
SetModeEnsure(t) ==
    /\ At(t, "setMode_ensure")
    /\ \E r \in ensureReaderLocked :
          /\ reader_' = r
          /\ IF r = "ready"
             THEN Goto(t, "setMode_send") /\ UNCHANGED << res, mtx >>
             ELSE Return(t, "setMode", "TransportInit") /\ mtx' = 0
    /\ UNCHANGED << pre, running_, worker_, rot, fault, ncalls, nstarts >>
    /\ UNCHANGED << wVars, ppVars, histVars, seqVars, extVars >>

\* bit masks a caller passes to setMode(mode)
WorkModes == {0, 5}

\* what the transport does with a work-mode command: it sends it, it throws,
\* or it returns reporting a status other than success
WorkModeReturns == {"sent", "refused"}
WorkModeOutcomes == WorkModeReturns \cup {"threw"}

\* line 202: the argument setMode hands to setLidarWorkMode
workModeArg(mode) == mode

\* lines 201-209: false from the catch (...) when the call throws, else true;
\* nothing the call returns is looked at
setModeResult(outcome) == IF outcome = "threw" THEN "ModeSet" ELSE "ok"

\* lines 201-209: reader_->setLidarWorkMode(mode); mtx_ released on return
SetModeSend(t) ==
    /\ At(t, "setMode_send")
    /\ mtx' = 0
    /\ \E mode \in WorkModes, outcome \in WorkModeOutcomes :
          /\ modeCmd' = [given |-> mode, sent |-> workModeArg(mode), outcome |-> outcome]
          /\ Return(t, "setMode", setModeResult(outcome))
    /\ UNCHANGED << pre, reader_, running_, worker_, rot, fault, ncalls, nstarts >>
    /\ UNCHANGED << wVars, ppVars, histVars, seqVars, rawVars, plyVars, loopVars >>

\* connect, lines 64-71: under mtx_, ensureReaderLocked unless reader_ exists
Connect(t) ==
    /\ Invoke(t, "connect")
    /\ mtx = 0
    /\ \E r \in ensureReaderLocked :
          /\ reader_' = r
          /\ Return(t, "connect", IF r = "ready" THEN "ok" ELSE "TransportInit")
    /\ UNCHANGED << mtx, running_, worker_, rot, fault, nstarts >>
    /\ UNCHANGED << wVars, ppVars, histVars, seqVars, extVars >>

\* getDistance, lines 213-216: no lock; dist_out = point_processing_.distance()
GetDistance(t) ==
    /\ Invoke(t, "getDistance")
    /\ LET dist_out == distance(PP, DefaultZMin, DefaultZMax)
       IN  /\ pc' = [pc EXCEPT ![t] = "idle"]
           /\ res' = [res EXCEPT ![t] =
                         Result("getDistance", IF dist_out < 0 THEN "invalid" ELSE "valid", dist_out)]
    /\ UNCHANGED << mtx, reader_, running_, worker_, rot, fault, nstarts >>
    /\ UNCHANGED << wVars, ppVars, histVars, seqVars, extVars >>

(***************************************************************************)
(* LidarController::loopRead, lines 495-527, run by a worker thread.       *)
(***************************************************************************)
\* line 496: LidarRawLogger raw_logger; its constructor throws when the log
\* file cannot be opened (raw_logger.hpp lines 143-148), and an exception
\* that leaves a thread function terminates the process
WorkerInit(w) ==
    /\ ~crashed
    /\ wpc[w] = "init"
    /\ \/ wpc' = [wpc EXCEPT ![w] = "loop"] /\ UNCHANGED fault
       \/ fault' = "terminate_raw_logger" /\ UNCHANGED wpc
    /\ UNCHANGED << pc, res, pre, mtx, reader_, running_, worker_, rot, ncalls, nstarts >>
    /\ UNCHANGED << wq, wreg, ppVars, histVars, seqVars, extVars >>

\* lines 500-505: the loop ends when running_ is false or reader_ is null
WorkerExit(w) ==
    /\ ~crashed
    /\ wpc[w] = "loop"
    /\ ~running_ \/ reader_ = "null"
    /\ wpc' = [wpc EXCEPT ![w] = "exited"]
    /\ UNCHANGED << ctlVars, wq, wreg, ppVars, histVars, seqVars, extVars >>

\* lines 507-523, a packet other than a point packet (IMU, version, none),
\* or a point packet for which getPointCloud returns false: nothing reaches
\* the point-processing engine
WorkerOther(w) ==
    /\ ~crashed
    /\ wpc[w] = "loop"
    /\ running_ /\ reader_ # "null"
    /\ UNCHANGED vars

\* a transport call made by the loop throws: nothing in loopRead catches it
WorkerThrow(w) ==
    /\ ~crashed
    /\ wpc[w] = "loop"
    /\ running_ /\ reader_ # "null"
    /\ fault' = "terminate_worker_exception"
    /\ UNCHANGED << pc, res, pre, mtx, reader_, running_, worker_, rot, ncalls, nstarts >>
    /\ UNCHANGED << wVars, ppVars, histVars, seqVars, extVars >>

\* Sensor-frame points (cm; intensity, time, ring).  In the robot frame:
\*   PtNear   -> ( 29, -1,   0)  outside the box, in the default z band
\*   PtFar    -> (100,  0,   0)  outside the box, in the default z band
\*   PtHigh   -> ( 30,  0, 100)  outside the box, above the default z band
\*   PtOrigin -> (  0,  0,   0)  inside the box
PtNear   == Point(18, -9, 22, 7, 1, 3)
PtFar    == Point(61, -29, 74, 9, 2, 1)
PtHigh   == Point(-48, 23, 90, 5, 3, 2)
PtOrigin == Point(0, 0, 0, 4, 0, 0)

\* clouds the transport hands to the worker in Spec
WorkerClouds ==
    { [stamp |-> 10, points |-> << PtNear >>],
      [stamp |-> 20, points |-> << PtOrigin >>] }

\* lines 510-513 and processCloudData, lines 271-276: a point packet whose
\* cloud is extracted; updateCloud transforms it and starts pushing
WorkerCloud(w, cloud) ==
    /\ ~crashed
    /\ wpc[w] = "loop"
    /\ running_ /\ reader_ # "null"
    /\ wq' = [wq EXCEPT ![w] = SamplesOfCloud(cloud)]
    /\ wpc' = [wpc EXCEPT ![w] = IF SamplesOfCloud(cloud) = << >> THEN "loop" ELSE "push"]
    /\ UNCHANGED << ctlVars, wreg, ppVars, histVars, seqVars, extVars >>

\* pushSample, lines 193-198: buffer_[head_] = s; ++head_; size_ is read
WorkerPushWrite(w) ==
    /\ ~crashed
    /\ wpc[w] = "push"
    /\ buffer_' = [buffer_ EXCEPT ![head_] = Head(wq[w])]
    /\ head_' = (head_ + 1) % HeadModulus
    /\ wreg' = [wreg EXCEPT ![w] = size_]
    /\ wpc' = [wpc EXCEPT ![w] = "push_size"]
    /\ slotBy' = [slotBy EXCEPT ![head_] = w]
    /\ UNCHANGED << ctlVars, wq, size_, period, epochPushes, seqVars, extVars >>

\* pushSample, lines 198-200: size_ is written unless it was kCapacity;
\* the push is complete and updateCloud goes on to the next sample
WorkerPushSize(w) ==
    /\ ~crashed
    /\ wpc[w] = "push_size"
    /\ size_' = IF wreg[w] < kCapacity THEN wreg[w] + 1 ELSE size_
    /\ wq' = [wq EXCEPT ![w] = Tail(wq[w])]
    /\ wpc' = [wpc EXCEPT ![w] = IF Tail(wq[w]) = << >> THEN "loop" ELSE "push"]
    /\ wreg' = [wreg EXCEPT ![w] = 0]
    /\ epochPushes' = IF epochPushes < kCapacity THEN epochPushes + 1 ELSE epochPushes
    /\ UNCHANGED << ctlVars, buffer_, head_, period, slotBy, seqVars, extVars >>

(***************************************************************************)
(* The controller with its threads.                                        *)
(***************************************************************************)
Next ==
    \/ \E t \in Threads :
          \/ StartBegin(t) \/ StartRotate(t) \/ StartFlush(t) \/ StartCommit(t)
          \/ StartClearHead(t) \/ StartClearSize(t)
          \/ StopBegin(t) \/ StopJoinable(t) \/ StopJoin(t) \/ StopRotate(t)
          \/ StopClearHead(t) \/ StopClearSize(t)
          \/ SetModeBegin(t) \/ SetModeEnsure(t) \/ SetModeSend(t)
          \/ Connect(t) \/ GetDistance(t)
    \/ \E w \in Workers :
          \/ WorkerInit(w) \/ WorkerExit(w) \/ WorkerOther(w) \/ WorkerThrow(w)
          \/ WorkerPushWrite(w) \/ WorkerPushSize(w)
          \/ \E cloud \in WorkerClouds : WorkerCloud(w, cloud)

Spec == Init /\ [][Next]_vars

(***************************************************************************)
(* The controller under fair scheduling: every worker thread and every     *)
(* caller inside a method keeps being scheduled (the operating system's    *)
(* scheduler); nothing obliges a caller to invoke a method.                *)
(***************************************************************************)
CallerStep(t) ==
    \/ StartRotate(t) \/ StartFlush(t) \/ StartCommit(t)
    \/ StartClearHead(t) \/ StartClearSize(t)
    \/ StopJoinable(t) \/ StopJoin(t) \/ StopRotate(t)
    \/ StopClearHead(t) \/ StopClearSize(t)
    \/ SetModeEnsure(t) \/ SetModeSend(t)

WorkerStep(w) ==
    \/ WorkerInit(w) \/ WorkerExit(w) \/ WorkerOther(w) \/ WorkerThrow(w)
    \/ WorkerPushWrite(w) \/ WorkerPushSize(w)
    \/ \E cloud \in WorkerClouds : WorkerCloud(w, cloud)

FairSpec ==
    /\ Spec
    /\ \A t \in Threads : WF_vars(CallerStep(t))
    /\ \A w \in Workers : WF_vars(WorkerStep(w))

(***************************************************************************)
(* Properties of the controller.                                           *)
(***************************************************************************)
InStart(t) == pc[t] \in {"start_rot", "start_flush", "start_commit", "start_clear", "start_clear2"}
InStop(t)  == pc[t] \in {"stop_join", "stop_joining", "stop_rot", "stop_clear", "stop_clear2"}
InSetMode(t) == pc[t] \in {"setMode_ensure", "setMode_send"}
Returned(t, op) == pc[t] = "idle" /\ res[t].op = op

\* C1: over all interleavings of start() and stop(), at most one worker
\* thread (loopRead) is alive in every reachable state, and start() never
\* assigns a new thread to worker_ while the previous worker is unjoined.
C1_AtMostOneWorker ==
    /\ Cardinality(AliveWorkers) <= 1
    /\ fault # "terminate_joinable_worker"

\* C2: when a stop() call has returned, no worker thread that was alive when
\* that stop() was invoked is still alive.
C2_StopReturnsAfterWorkerExit ==
    \A t \in Threads :
        Returned(t, "stop") => \A w \in pre[t].alive : ~Alive(w)

\* C3: setMode() never gets past its running_ check while running_ is true
\* (its ensureReaderLocked and setLidarWorkMode calls are made with running_
\* false), and a setMode() invoked while running_ was true returned failure.
C3_SetModeNeverWhileRunning ==
    /\ \A t \in Threads : InSetMode(t) => ~running_
    /\ \A t \in Threads :
          (Returned(t, "setMode") /\ pre[t].running) => res[t].out = "InvalidState"

\* C3, witness: a setMode() call was refused while the controller is Running
C3_Witness ==
    \E t \in Threads :
        /\ Returned(t, "setMode") /\ res[t].out = "InvalidState"
        /\ running_ /\ AliveWorkers # {}

\* C4: once the start() that spawned the worker has returned success, and
\* until the next stop(), getDistance() is valid exactly when kCapacity
\* samples have been pushed since that start().
C4_ValidIffCapacityPushed ==
    (period.st = "started" /\ ~crashed) =>
        ((distance(PP, DefaultZMin, DefaultZMax) >= 0) <=> (epochPushes >= kCapacity))

\* C8: with no call in flight, running_ implies that the last rotation
\* command was start_rotation and a worker is alive, and not running_ implies
\* that rotation is off and no worker is alive.
C8_StateConsistent ==
    ((\A t \in Threads : pc[t] = "idle") /\ ~crashed) =>
        /\ running_ => (rot = "start" /\ AliveWorkers # {})
        /\ ~running_ => (rot # "start" /\ AliveWorkers = {})

\* C9: under fair scheduling every stop() call eventually returns.  Outside
\* the claim: a worker that dies of a transport or log-file exception, and
\* a start() whose std::thread constructor failed.
C9_StopReturns ==
    \A t \in Threads :
        InStop(t) ~> \/ pc[t] = "idle"
                     \/ fault \in {"terminate_raw_logger", "terminate_worker_exception"}
                     \/ \E u \in Threads : res[u].out = "ThreadSpawn"

\* C10: a start() call made while not Running, alone, that returns failure
\* leaves running_ false, no worker alive, and rotation as it found it.
C10_FailedStartChangesNothing ==
    \A t \in Threads :
        ( /\ Returned(t, "start")
          /\ res[t].out \in {"TransportInit", "RotationStart", "ThreadSpawn"}
          /\ ~pre[t].running
          /\ \A u \in Threads \ {t} : pc[u] = "idle" /\ res[u].op = "none" )
        => /\ ~running_
           /\ AliveWorkers = {}
           /\ rot = pre[t].rot

\* C12: a connect(), start() or setMode() in which session creation or
\* initialisation fails returns failure with reader_ null; reader_ is never
\* a handle whose initialisation failed; and from reader_ null a call in
\* which the transport succeeds makes it ready.
C12_FailedInitLeavesNull ==
    /\ [](reader_ \in {"null", "ready"})
    /\ [](reader_ = "null" => ensureReaderAfter(TRUE, 0) = "ready")
    /\ [][\A t \in Threads :
            ((Connect(t) \/ StartBegin(t) \/ SetModeEnsure(t))
                /\ pc'[t] = "idle" /\ res'[t].out = "TransportInit")
            => reader_' = "null"]_vars

\* C12, witness: one call failed with TransportInit and a later connect() or
\* start() created and initialised the session
C12_Witness ==
    \E t, u \in Threads :
        /\ Returned(t, "setMode") /\ res[t].out = "TransportInit"
        /\ Returned(u, "connect") /\ res[u].out = "ok"
        /\ reader_ = "ready"

\* C13: once reader_ is a created and initialised session it stays that one
\* in every step of connect(), start(), stop(), setMode() and the worker,
\* and ensureReaderLocked then returns it whatever the transport would
\* answer (createUnitreeLidarReader / initializeUDP are not called again).
C13_SessionRetained ==
    /\ [][reader_ = "ready" => reader_' = "ready"]_vars
    /\ [](reader_ = "ready" =>
            \A o \in ReaderOutcomes : ensureReaderAfter(o.created, o.rc) = "ready")

\* C13, witness: a start() after a completed stop() is past its
\* ensureReaderLocked with the session of the first start()
C13_Witness ==
    \E t, u \in Threads :
        /\ nstarts = 2
        /\ res[u].op = "stop" /\ res[u].out = "stopped" /\ pc[u] = "idle"
        /\ pc[t] = "start_flush"
        /\ t # u
        /\ reader_ = "ready"

\* the state of the controller's state machine: Running while running_ is
\* set, else Connected when a transport session exists, else Idle
ControllerState ==
    IF running_ THEN "Running"
    ELSE IF reader_ = "ready" THEN "Connected" ELSE "Idle"

\* a step of setMode() by caller thread t
SetModeStep(t) == SetModeBegin(t) \/ SetModeEnsure(t) \/ SetModeSend(t)

\* C14, as stated: no step of a setMode() call changes ControllerState (a
\* call made in Idle leaves Idle, one made in Connected leaves Connected).
C14_SetModeSelfLoop ==
    [][\A t \in Threads : SetModeStep(t) => ControllerState' = ControllerState]_vars

\* C14, amended: setMode() keeps Connected and Running; made in Idle it
\* stays in Idle when it returns TransportInit and moves to Connected when
\* its ensureReaderLocked creates the session (whether the mode command
\* then succeeds or fails); it never enters or leaves Running.
C14_SetModeKeepsOrConnects ==
    [][\A t \in Threads : SetModeStep(t) =>
          /\ ControllerState = "Running" => ControllerState' = "Running"
          /\ ControllerState = "Connected" => ControllerState' = "Connected"
          /\ ControllerState = "Idle" =>
                IF pc'[t] = "setMode_send" THEN ControllerState' = "Connected"
                ELSE ControllerState' = "Idle"]_vars

\* C14, witness: the only call made so far is a setMode(), made in Idle; it
\* has returned and the controller is Connected
C14_Witness ==
    \E t \in Threads :
        /\ ncalls = 1
        /\ Returned(t, "setMode") /\ res[t].out \in {"ok", "ModeSet"}
        /\ ControllerState = "Connected"

\* C15: setMode(mode) returns failure whenever the work-mode command fails
\* (the transport throws or reports a status other than success), and
\* returns success only when the command was sent, with the given mode.
C15_SetModeReportsCommandFailure ==
    [][\A t \in Threads : SetModeSend(t) =>
          /\ modeCmd'.outcome # "sent" => res'[t].out = "ModeSet"
          /\ res'[t].out = "ok" =>
                (modeCmd'.outcome = "sent" /\ modeCmd'.sent = modeCmd'.given)]_vars

\* C18: a raw log file that cannot be opened when the worker starts is not
\* fatal: the process is never terminated by it (the worker goes on to its
\* loop and feeds the point-processing engine).
C18_RawLogFailureNotFatal ==
    fault # "terminate_raw_logger"

\* C19: a transport call that throws inside the worker loop is contained:
\* the process is never terminated by it.
C19_WorkerContainsTransportFailure ==
    fault # "terminate_worker_exception"

CallersInTransport ==
    {t \in Threads : /\ pc[t] \in {"start_rot", "start_flush", "stop_rot", "setMode_send"}
                     /\ reader_ # "null"}

\* the worker threads whose current statement is the runParse of line 507
WorkersInTransport ==
    {w \in Workers : wpc[w] = "loop" /\ running_ /\ reader_ # "null"}

\* C33: calls on the session are mutually exclusive: at no time are two
\* threads (callers of start(), stop(), setMode(), or workers) each at a
\* transport call, and a worker is at one only while running_ is set.
C33_TransportCallsExclusive ==
    /\ Cardinality(CallersInTransport) + Cardinality(WorkersInTransport) <= 1
    /\ \A w \in WorkersInTransport : running_

\* C31: there is no Running without a session: whenever running_ is set,
\* reader_ is a created and initialised session, and a worker never leaves
\* its loop because it read a null reader_ while running_ was set.
C31_RunningHasSession ==
    /\ [](running_ => reader_ = "ready")
    /\ [][\A w \in Workers : WorkerExit(w) => ~running_]_vars

\* C31, witness: the controller is Running, its worker has pushed a sample,
\* and a connect() made while Running has returned
C31_Witness ==
    \E t \in Threads :
        /\ running_ /\ reader_ = "ready"
        /\ AliveWorkers # {} /\ epochPushes > 0
        /\ Returned(t, "connect") /\ pre[t].running

\* C29: start() does not hold mtx_ in its flush window and getDistance()
\* takes no lock: while a thread is in the flush window of start(), mtx_ is
\* not held by it, and another thread that is idle can enter setMode(),
\* stop() and getDistance() at once; the steps of a setMode() or stop()
\* under way wait for nothing that start() holds; getDistance() can be
\* entered whoever holds mtx_.
C29_FlushWindowUnlocked ==
    \A t \in Threads :
        /\ pc[t] \in {"start_rot", "start_flush"} => mtx # t
        /\ (pc[t] = "start_flush" /\ ~crashed) =>
              \A u \in Threads \ {t} :
                  /\ (pc[u] = "idle" /\ ncalls < MaxCalls) =>
                        /\ ENABLED SetModeBegin(u)
                        /\ ENABLED StopBegin(u)
                        /\ ENABLED GetDistance(u)
                  /\ pc[u] = "setMode_ensure" => ENABLED SetModeEnsure(u)
                  /\ pc[u] = "setMode_send" => ENABLED SetModeSend(u)
                  /\ pc[u] = "stop_clear" => ENABLED StopClearHead(u)
        /\ (pc[t] = "idle" /\ ncalls < MaxCalls /\ ~crashed) => ENABLED GetDistance(t)

\* C29, witness: a thread is inside setMode(), holding mtx_, while the other
\* is in the flush window of start()
C29_Witness ==
    \E t, u \in Threads :
        /\ pc[t] = "start_flush"
        /\ pc[u] = "setMode_send"
        /\ mtx = u

\* C30: a start() made while running_ is set returns success and changes
\* nothing: no rotation command, no flush, no thread, the session, the ring
\* buffer with its size and what getDistance() reports stay as they are.
C30_StartIdempotent ==
    [][\A t \in Threads :
          (StartBegin(t) /\ running_) =>
              /\ pc'[t] = "idle" /\ res'[t] = Result("start", "already", 0)
              /\ UNCHANGED << mtx, reader_, running_, worker_, rot, fault >>
              /\ UNCHANGED << wpc, wq, wreg, buffer_, head_, size_ >>
              /\ distance([buffer |-> buffer_', head |-> head_', size |-> size_'],
                          DefaultZMin, DefaultZMax)
                    = distance(PP, DefaultZMin, DefaultZMax)]_vars

\* C30, witness: a start() has returned "already running" on a controller
\* whose getDistance() is valid
C30_Witness ==
    \E t \in Threads :
        /\ Returned(t, "start") /\ res[t].out = "already"
        /\ running_ /\ AliveWorkers # {}
        /\ distance(PP, DefaultZMin, DefaultZMax) >= 0

\* the worker thread spawned by the latest start(), 0 when none was
LatestWorker ==
    IF \A w \in Workers : wpc[w] = "unborn" THEN 0
    ELSE CHOOSE w \in Workers :
            wpc[w] # "unborn" /\ \A v \in Workers : v > w => wpc[v] = "unborn"

\* C26: when getDistance() reports a valid distance, every slot it scanned
\* has been written since the most recent clear(), by the worker of the
\* latest start(): none holds a sample from before that start() or a
\* never-written value-initialised entry.
C26_ValidDistanceFromCurrentRun ==
    [][\A t \in Threads :
          (GetDistance(t) /\ res'[t].out = "valid") =>
              \A i \in Slots : slotBy[i] # 0 /\ slotBy[i] = LatestWorker]_vars

\* C25: the steps of start() come in the order rotation on, flush window,
\* reset of the point-processing state, then running_ = true and the spawn
\* of the worker: when a start() spawns the worker it has reached that step
\* from the flush window and no step of its reset is still to come.
C25_ResetBeforeSpawn ==
    [][\A t \in Threads :
          /\ pc'[t] = "start_flush" /\ pc[t] # "start_flush" =>
                (pc[t] = "start_rot" /\ rot' = "start")
          /\ pc'[t] = "start_commit" /\ pc[t] # "start_commit" => pc[t] = "start_flush"
          /\ (pc[t] = "start_commit" /\ wpc' # wpc) =>
                (running_' /\ pc'[t] \notin {"start_clear", "start_clear2"})]_vars

(***************************************************************************)
(* The point-processing engine driven sequentially: whole updateCloud,     *)
(* clear and distance calls on one LidarPointProcessing object.            *)
(***************************************************************************)
PPPoints == {PtNear, PtFar, PtHigh, PtOrigin}

\* stamps of the clouds fed to the engine
PPStamps == {100}

RECURSIVE SeqsUpTo(_, _)
SeqsUpTo(S, n) ==
    IF n = 0 THEN {<< >>}
    ELSE LET shorter == SeqsUpTo(S, n - 1)
         IN  shorter \cup {Append(q, e) : q \in shorter, e \in S}

PPClouds == {[stamp |-> st, points |-> pts] : st \in PPStamps, pts \in SeqsUpTo(PPPoints, MaxCloudLen)}

\* height bands the distance query is asked for
ZBands == {<< DefaultZMin, DefaultZMax >>, << 90, 120 >>, << -120, -60 >>}

\* updateCloud(cloud_in) as one call
PPUpdateCloud(cloud) ==
    /\ Len(pushed) + Len(SamplesOfCloud(cloud)) <= MaxPushes
    /\ LET after == updateCloud(PP, cloud)
       IN  /\ buffer_' = after.buffer
           /\ head_' = after.head
           /\ size_' = after.size
    /\ pushed' = pushed \o SamplesOfCloud(cloud)
    /\ \E opens \in SUBSET (1..MaxCloudLen) :
          obs' = [op |-> "updateCloud", cloud |-> cloud, before |-> PP,
                  dumps |-> dumpsOfPushes(PP, SamplesOfCloud(cloud), 1, opens)]
    /\ UNCHANGED << ctlVars, wVars, histVars, extVars >>

\* clear() as one call
PPClear ==
    /\ LET after == clear(PP)
       IN  /\ buffer_' = after.buffer
           /\ head_' = after.head
           /\ size_' = after.size
    /\ pushed' = << >>
    /\ obs' = [op |-> "clear"]
    /\ UNCHANGED << ctlVars, wVars, histVars, extVars >>

\* distance(z_min, z_max) as one call; obs keeps what it returned
PPDistance(z_min, z_max) ==
    /\ obs' = [op |-> "distance", z_min |-> z_min, z_max |-> z_max,
               d |-> distance(PP, z_min, z_max)]
    /\ UNCHANGED << ctlVars, wVars, ppVars, histVars, pushed, extVars >>

NextPP ==
    \/ \E cloud \in PPClouds : PPUpdateCloud(cloud)
    \/ PPClear
    \/ \E band \in ZBands : PPDistance(band[1], band[2])

SpecPP == Init /\ [][NextPP]_vars

(***************************************************************************)
(* The raw logger driven sequentially: write calls on one open logger.     *)
(***************************************************************************)
\* monotonic timestamps the calls carry (one, two and four bytes long)
RawStamps == {7, 16909060}

\* writePointPacket / writeImuPacket / writeVersionPacket, lines 80-110: one
\* call, with the size the packet's header declares
RawWrite(type, packet_size_field, mono_ts_ns) ==
    /\ Len(rawCalls) < MaxWrites
    /\ rawFile' = writeAnyPacket(rawFile, type, PacketObject(type), packet_size_field,
                                 PacketObjectSize(type), mono_ts_ns)
    /\ rawCalls' = Append(rawCalls, [type |-> type, size |-> packet_size_field,
                                     ts |-> mono_ts_ns, data |-> PacketObject(type)])
    /\ UNCHANGED << ctlVars, wVars, ppVars, histVars, seqVars, modeCmd, plyVars, loopVars >>

NextRaw ==
    \E type \in RawRecordTypes, ts \in RawStamps :
        \E size \in 0..(PacketObjectSize(type) + 1) : RawWrite(type, size, ts)

SpecRaw == Init /\ [][NextRaw]_vars

(***************************************************************************)
(* The snapshot logger with its thread: push() calls, a stop() call, the   *)
(* loop thread and the clock.  Every file is opened successfully.          *)
(***************************************************************************)
\* clouds pushed to the logger (sensor-frame points)
PlyClouds ==
    { [stamp |-> 1, points |-> << >>],
      [stamp |-> 2, points |-> << PtNear, PtFar >>],
      [stamp |-> 3, points |-> << PtHigh >>] }

\* push(cloud), lines 28-32: under mtx_, buffer_.push_back(cloud); notify_one
PlyPush(cloud) ==
    /\ Len(plyPushes) < MaxPlyPushes
    /\ plyMtx = "free"
    /\ plyBuffer' = Append(plyBuffer, cloud)
    /\ plyPushes' = Append(plyPushes, [at |-> plyNow, points |-> Len(cloud.points),
                                       cloud |-> cloud])
    /\ UNCHANGED << plyNow, last_flush_, plyPc, plyFiles, plyRunning, plyMtx, plyStop >>
    /\ UNCHANGED << ctlVars, wVars, ppVars, histVars, seqVars, modeCmd, rawVars, loopVars >>

\* loop(), lines 72-81: wait_for returns (notified, timed out or spuriously)
\* with mtx_ held (plyStop.woke keeps how the first wait after a stop()
\* ended: before its timeout or at it); if a flush is due the buffer is swapped out and mtx_
\* unlocked, else the iteration ends (mtx_ released) and line 70 decides
PlyWake ==
    /\ plyPc.at = "wait"
    /\ plyMtx = "free"
    /\ IF flushDue(plyNow, last_flush_, plyBuffer)
       THEN /\ plyPc' = PlyWriting(plyNow, plyBuffer)
            /\ plyBuffer' = << >>
       ELSE /\ plyPc' = PlyNextIteration(plyRunning)
            /\ UNCHANGED plyBuffer
    /\ plyStop' = IF plyStop.at = "join" /\ plyStop.woke = "none"
                  THEN [plyStop EXCEPT !.woke = IF waitTimedOut(plyPc.slept)
                                                THEN "timeout" ELSE "early"]
                  ELSE plyStop
    /\ UNCHANGED << plyNow, last_flush_, plyFiles, plyPushes, plyRunning, plyMtx >>
    /\ UNCHANGED << ctlVars, wVars, ppVars, histVars, seqVars, modeCmd, rawVars, loopVars >>

\* loop(), lines 78-79: writePLY(local) with mtx_ unlocked, last_flush_ = now;
\* the iteration ends and line 70 decides
PlyWrite ==
    /\ plyPc.at = "write"
    /\ plyFiles' = writePLY(plyFiles, plyPc.local, plyNow, plyPc.now, TRUE)
    /\ last_flush_' = plyPc.now
    /\ plyPc' = PlyNextIteration(plyRunning)
    /\ UNCHANGED << plyNow, plyBuffer, plyPushes, plyRunning, plyMtx, plyStop >>
    /\ UNCHANGED << ctlVars, wVars, ppVars, histVars, seqVars, modeCmd, rawVars, loopVars >>

\* loop(), line 83: std::lock_guard lg(mtx_) after the while
PlyFinalLock ==
    /\ plyPc.at = "exit"
    /\ plyMtx = "free"
    /\ plyMtx' = "loop"
    /\ plyPc' = PlyAt("final")
    /\ UNCHANGED << plyNow, plyBuffer, last_flush_, plyFiles, plyPushes, plyRunning, plyStop >>
    /\ UNCHANGED << ctlVars, wVars, ppVars, histVars, seqVars, modeCmd, rawVars, loopVars >>

\* loop(), lines 84-85: if (!buffer_.empty()) writePLY(buffer_), under the
\* lock_guard; buffer_ is left as it is; loop() returns and mtx_ is released
PlyFinalWrite ==
    /\ plyPc.at = "final"
    /\ plyFiles' = IF plyBuffer # << >>
                   THEN writePLY(plyFiles, plyBuffer, plyNow, plyNow, FALSE)
                   ELSE plyFiles
    /\ plyMtx' = "free"
    /\ plyPc' = PlyAt("done")
    /\ UNCHANGED << plyNow, plyBuffer, last_flush_, plyPushes, plyRunning, plyStop >>
    /\ UNCHANGED << ctlVars, wVars, ppVars, histVars, seqVars, modeCmd, rawVars, loopVars >>

\* stop(), lines 35-36: running_.exchange(false) returns true; notify_one,
\* which wakes the logger thread only if it is waiting (the thread's wake-up
\* before its timeout in PlyWake).  The clock of the model has to have the
\* seconds of one wait left.
PlyStopBegin ==
    /\ plyStop.at = "idle"
    /\ plyRunning
    /\ plyNow + PlyWaitSeconds <= MaxPlyTime
    /\ plyRunning' = FALSE
    /\ plyStop' = [plyStop EXCEPT !.at = "join", !.pushed = Len(plyPushes)]
    /\ UNCHANGED << plyNow, plyBuffer, last_flush_, plyPc, plyFiles, plyPushes, plyMtx >>
    /\ UNCHANGED << ctlVars, wVars, ppVars, histVars, seqVars, modeCmd, rawVars, loopVars >>

\* stop(), line 37: worker_.join() returns when loop() has returned
PlyStopJoin ==
    /\ plyStop.at = "join"
    /\ plyPc.at = "done"
    /\ plyStop' = [plyStop EXCEPT !.at = "returned"]
    /\ UNCHANGED << plyNow, plyBuffer, last_flush_, plyPc, plyFiles, plyPushes,
                    plyRunning, plyMtx >>
    /\ UNCHANGED << ctlVars, wVars, ppVars, histVars, seqVars, modeCmd, rawVars, loopVars >>

\* stop(), line 35, on a logger already stopped (a second call, or the
\* destructor's): running_.exchange(false) returns false and stop() returns
PlyStopAgain ==
    /\ ~plyRunning
    /\ ~plyStop.again
    /\ plyStop' = [plyStop EXCEPT !.again = TRUE]
    /\ UNCHANGED << plyNow, plyBuffer, last_flush_, plyPc, plyFiles, plyPushes,
                    plyRunning, plyMtx >>
    /\ UNCHANGED << ctlVars, wVars, ppVars, histVars, seqVars, modeCmd, rawVars, loopVars >>

\* a second passes; a thread in wait_for sleeps at most PlyWaitSeconds
PlyTick ==
    /\ plyNow < MaxPlyTime
    /\ plyNow' = plyNow + 1
    /\ IF plyPc.at = "wait"
       THEN /\ ~waitTimedOut(plyPc.slept)
            /\ plyPc' = PlyWaiting(plyPc.slept + 1)
       ELSE UNCHANGED plyPc
    /\ UNCHANGED << plyBuffer, last_flush_, plyFiles, plyPushes, plyRunning, plyMtx, plyStop >>
    /\ UNCHANGED << ctlVars, wVars, ppVars, histVars, seqVars, modeCmd, rawVars, loopVars >>

NextPly ==
    \/ \E cloud \in PlyClouds : PlyPush(cloud)
    \/ PlyWake
    \/ PlyWrite
    \/ PlyFinalLock
    \/ PlyFinalWrite
    \/ PlyStopBegin
    \/ PlyStopJoin
    \/ PlyStopAgain
    \/ PlyTick

SpecPly == Init /\ [][NextPly]_vars

(***************************************************************************)
(* The snapshot logger under fair scheduling.  The logger thread and a     *)
(* caller inside stop() keep being scheduled; time passes; a wait_for      *)
(* that has lasted its timeout returns (line 72).  Nothing obliges the     *)
(* thread to wake before the timeout: a notification can be missed.        *)
(***************************************************************************)
PlyWaitExpires == PlyWake /\ waitTimedOut(plyPc.slept)

PlyThreadStep == PlyWrite \/ PlyFinalLock \/ PlyFinalWrite

FairSpecPly ==
    /\ SpecPly
    /\ WF_vars(PlyTick)
    /\ WF_vars(PlyWaitExpires)
    /\ WF_vars(PlyThreadStep)
    /\ WF_vars(PlyStopJoin)

(***************************************************************************)
(* The worker loop alone: iterations of loopRead (lines 500-526) by one    *)
(* worker with its raw logger, the point-processing engine and the IMU     *)
(* statistics, while running_ stays true.                                  *)
(***************************************************************************)
\* what runParse returns: the tag of a decoded packet, or no packet
PacketTags == {"point", "imu", "version"}

\* lines 512, 516, 520: the record type the write call of the tag uses
RawTypeOf(tag) ==
    IF tag = "point" THEN RawPoint ELSE IF tag = "imu" THEN RawImu ELSE RawVersion

\* mutant of the dispatch: every packet goes on to processCloudData
dispatchAllToCloud(tag) == "cloud"

\* lines 510-523: what follows the write call of the tag
dispatch(tag) ==
    IF tag = "point" THEN "cloud" ELSE IF tag = "imu" THEN "imu" ELSE "pull"

\* mutant of the clock: a wall clock, which can be set back
getWallTimeNs(last) == 0..(last + 1)

\* getMonotonicTimeNs, lines 489-492: steady_clock::now() never reads less
\* than an earlier reading
getMonotonicTimeNs(last) == {last, last + 1}

\* lines 507-508 with a packet: type = runParse(); mono_ts_ns
LoopPull(tag, size) ==
    /\ lpc.at = "pull"
    /\ Len(pulls) < MaxPulls
    /\ \E ts \in getMonotonicTimeNs(monoNow) :
          /\ monoNow' = ts
          /\ lpc' = LoopAt("log", tag, size, ts)
          /\ pulls' = Append(pulls, [tag |-> tag, size |-> size, ts |-> ts])
    /\ UNCHANGED << imuN, rawVars, ppVars, seqVars >>
    /\ UNCHANGED << ctlVars, wVars, histVars, modeCmd, plyVars >>

\* lines 507-508 and 521-523 without a packet: sleep_for(1 ms)
LoopIdle ==
    /\ lpc.at = "pull"
    /\ monoNow < MaxPulls
    /\ monoNow' = monoNow + 1
    /\ UNCHANGED << lpc, pulls, imuN, rawVars, ppVars, seqVars >>
    /\ UNCHANGED << ctlVars, wVars, histVars, modeCmd, plyVars >>

\* lines 511-512, 515-516, 519-520: the write call of the packet's tag
LoopLog ==
    /\ lpc.at = "log"
    /\ LET type == RawTypeOf(lpc.tag)
       IN  /\ rawFile' = writeAnyPacket(rawFile, type, PacketObject(type), lpc.size,
                                        PacketObjectSize(type), lpc.ts)
           /\ rawCalls' = Append(rawCalls, [type |-> type, size |-> lpc.size,
                                            ts |-> lpc.ts, data |-> PacketObject(type)])
    /\ lpc' = [lpc EXCEPT !.at = dispatch(lpc.tag)]
    /\ UNCHANGED << pulls, imuN, monoNow, ppVars, seqVars >>
    /\ UNCHANGED << ctlVars, wVars, histVars, modeCmd, plyVars >>

\* line 513, processCloudData (lines 271-276): nothing when getPointCloud
\* returns false
LoopNoCloud ==
    /\ lpc.at = "cloud"
    /\ lpc' = [lpc EXCEPT !.at = "pull"]
    /\ UNCHANGED << pulls, imuN, monoNow, rawVars, ppVars, seqVars >>
    /\ UNCHANGED << ctlVars, wVars, histVars, modeCmd, plyVars >>

\* line 513, processCloudData (lines 271-276): updateCloud(cloud)
LoopCloud(cloud) ==
    /\ lpc.at = "cloud"
    /\ LET after == updateCloud(PP, cloud)
       IN  /\ buffer_' = after.buffer
           /\ head_' = after.head
           /\ size_' = after.size
    /\ pushed' = pushed \o SamplesOfCloud(cloud)
    /\ lpc' = [lpc EXCEPT !.at = "pull"]
    /\ UNCHANGED << pulls, imuN, monoNow, rawVars, obs >>
    /\ UNCHANGED << ctlVars, wVars, histVars, modeCmd, plyVars >>

\* line 517, processIMUData (lines 306-487): nothing when getImuData
\* returns false; else S.n++ (line 408), and S = ImuStats{} when the 10 s
\* window has ended (line 483)
LoopImu ==
    /\ lpc.at = "imu"
    /\ imuN' \in {imuN, imuN + 1, 0}
    /\ lpc' = [lpc EXCEPT !.at = "pull"]
    /\ UNCHANGED << pulls, monoNow, rawVars, ppVars, seqVars >>
    /\ UNCHANGED << ctlVars, wVars, histVars, modeCmd, plyVars >>

NextLoop ==
    \/ \E tag \in PacketTags :
          \E size \in {0, PacketObjectSize(RawTypeOf(tag))} : LoopPull(tag, size)
    \/ LoopIdle
    \/ LoopLog
    \/ LoopNoCloud
    \/ \E cloud \in WorkerClouds : LoopCloud(cloud)
    \/ LoopImu

SpecLoop == Init /\ [][NextLoop]_vars

(***************************************************************************)
(* Properties of the snapshot logger.                                      *)
(***************************************************************************)
\* the pushes of clouds that hold points
PlyNonEmptyPushes == SelectSeq(plyPushes, LAMBDA p : p.points > 0)

\* the files written by the periodic flush (line 78)
PlyPeriodicFiles == SelectSeq(plyFiles, LAMBDA f : f.periodic)

\* C20: when the clouds pushed so far were pushed within less than one flush
\* interval of each other, no file is written before the interval has
\* elapsed since the first of them and at most one file is written; two
\* periodic flushes are at least one flush interval apart.
C20_BatchFlushedOncePerInterval ==
    LET P == PlyNonEmptyPushes
        F == PlyPeriodicFiles
    IN  /\ (P # << >> /\ P[Len(P)].at - P[1].at < FLUSH_INTERVAL) =>
              /\ \A i \in 1..Len(F) : F[i].at - P[1].at >= FLUSH_INTERVAL
              /\ Len(F) <= 1
        /\ \A i \in 1..(Len(F) - 1) :
              F[i + 1].flushed - F[i].flushed >= FLUSH_INTERVAL

\* the point lines a file of the batch is to hold: line k is the line of
\* the k-th point of the batch, counted through its clouds in order
PlyExpectedLines(batch) ==
    LET owner(k) == CHOOSE i \in 1..Len(batch) :
                        /\ PlyTotal(SubSeq(batch, 1, i - 1)) < k
                        /\ k <= PlyTotal(SubSeq(batch, 1, i))
        pointAt(k) == batch[owner(k)].points[k - PlyTotal(SubSeq(batch, 1, owner(k) - 1))]
    IN  [k \in 1..PlyTotal(batch) |->
            [x |-> pointAt(k).x, y |-> pointAt(k).y, z |-> pointAt(k).z,
             intensity |-> pointAt(k).intensity, ring |-> pointAt(k).ring]]

\* a step in which one file of the batch is written, unless the batch holds
\* no point: then none is
PlyBatchWritten(batch) ==
    IF PlyTotal(batch) = 0 THEN plyFiles' = plyFiles
    ELSE /\ Len(plyFiles') = Len(plyFiles) + 1
         /\ SubSeq(plyFiles', 1, Len(plyFiles)) = plyFiles
         /\ LET f == plyFiles'[Len(plyFiles')]
            IN  /\ f.clouds = batch
                /\ f.lines = PlyExpectedLines(batch)
                /\ f.vertex = Len(f.lines)
                /\ f.vertex = PlyTotal(batch)

\* C21: every file the logger writes holds the point lines of all clouds
\* that were in the buffer at the swap (at the stop flush: in the buffer), in
\* push order, and its element vertex count is the number of those lines;
\* a batch without points writes no file; nothing else writes a file.
C21_FileHoldsBatch ==
    [][ /\ \A cloud \in PlyClouds : PlyPush(cloud) => plyBuffer' = Append(plyBuffer, cloud)
        /\ (plyPc.at = "wait" /\ plyPc'.at = "write") =>
               (plyPc'.local = plyBuffer /\ plyBuffer' = << >>)
        /\ IF plyPc.at = "write" /\ plyPc'.at # "write" THEN PlyBatchWritten(plyPc.local)
           ELSE IF plyPc.at = "final" /\ plyPc'.at = "done" THEN PlyBatchWritten(plyBuffer)
           ELSE plyFiles' = plyFiles ]_vars

\* C21, witness: a periodic file of a batch of two different clouds (three
\* point lines)
C21_Witness ==
    /\ Len(plyFiles) = 1
    /\ plyFiles[1].periodic
    /\ Len(plyFiles[1].clouds) = 2
    /\ plyFiles[1].clouds[1] # plyFiles[1].clouds[2]
    /\ plyFiles[1].vertex = 3

\* the writes whose file is on disk: no later write had the same file name
\* (fopen(fname, "w") truncates an existing file)
PlyOnDisk ==
    {i \in 1..Len(plyFiles) :
        \A j \in (i + 1)..Len(plyFiles) : plyFiles[j].name # plyFiles[i].name}

\* the point lines of the files on disk, file after file
RECURSIVE PlyDiskLinesFrom(_)
PlyDiskLinesFrom(i) ==
    IF i > Len(plyFiles) THEN << >>
    ELSE (IF i \in PlyOnDisk THEN plyFiles[i].lines ELSE << >>) \o PlyDiskLinesFrom(i + 1)

\* the number of times a line occurs in a sequence of lines
PlyOcc(l, lines) == Cardinality({k \in 1..Len(lines) : lines[k] = l})

\* the clouds of the first n push() calls
PlyPushedClouds(n) == [i \in 1..n |-> plyPushes[i].cloud]

\* C22: when stop() has returned, every point pushed before stop() was
\* invoked is in the files on disk as often as it was pushed (no point is
\* lost), and no point is there more often than it was pushed at all (none
\* is duplicated).
C22_NoPointLostOrDuplicated ==
    plyStop.at = "returned" =>
        LET before == PlyExpectedLines(PlyPushedClouds(plyStop.pushed))
            all    == PlyExpectedLines(PlyPushedClouds(Len(plyPushes)))
            disk   == PlyDiskLinesFrom(1)
        IN  \A k \in 1..Len(all) :
                /\ PlyOcc(all[k], disk) <= PlyOcc(all[k], all)
                /\ k <= Len(before) => PlyOcc(all[k], disk) >= PlyOcc(all[k], before)

\* C23: the logger thread never holds mtx_ while it is writing an output
\* file, in the periodic flush and in the flush at stop alike, so that a
\* push() can take mtx_ whenever a file is being written.
C23_NoWriteUnderLock ==
    plyPc.at \in {"write", "final"} => plyMtx = "free"

(***************************************************************************)
(* Properties of the raw logger.                                           *)
(***************************************************************************)
\* a call whose declared payload size is within 1..max for its type
RawCallValid(c) == c.size >= 1 /\ c.size <= PacketObjectSize(c.type)

\* the value of little-endian bytes
RECURSIVE FromLE(_)
FromLE(b) ==
    IF b = << >> THEN 0 ELSE Head(b) + 256 * FromLE(Tail(b))

\* a sequential reader that trusts payload_size: the records of the bytes
\* after the magic, and the number of bytes it could not read as a record
RECURSIVE ReadRecords(_)
ReadRecords(b) ==
    IF Len(b) < 16 THEN [recs |-> << >>, rest |-> Len(b)]
    ELSE LET size == FromLE(SubSeq(b, 13, 16))
         IN  IF Len(b) < 16 + size THEN [recs |-> << >>, rest |-> Len(b)]
             ELSE LET r == [type |-> b[1], reserved |-> SubSeq(b, 2, 4),
                            ts |-> FromLE(SubSeq(b, 5, 12)), size |-> size,
                            payload |-> SubSeq(b, 17, 16 + size)]
                      more == ReadRecords(SubSeq(b, 17 + size, Len(b)))
                  IN  [recs |-> << r >> \o more.recs, rest |-> more.rest]

\* the record a valid call is to be read back as
RecordOfCall(c) ==
    [type |-> c.type, reserved |-> << 0, 0, 0 >>, ts |-> c.ts, size |-> c.size,
     payload |-> SubSeq(c.data, 1, c.size)]

\* C16: a write call whose declared payload size is zero or above the
\* maximum of its type leaves the file as it was; a valid call appends
\* 16 + size bytes to what the file held.
C16_MalformedRecordNotWritten ==
    [][\A c \in {rawCalls'[Len(rawCalls')]} :
          rawCalls' = Append(rawCalls, c) =>
              IF RawCallValid(c)
              THEN /\ Len(rawFile') = Len(rawFile) + 16 + c.size
                   /\ SubSeq(rawFile', 1, Len(rawFile)) = rawFile
              ELSE rawFile' = rawFile]_vars

\* C16, witness: a call with size zero and a call with a size above the
\* maximum were made, then a valid call, which is in the file
C16_Witness ==
    /\ Len(rawCalls) = 3
    /\ rawCalls[1].size = 0
    /\ rawCalls[2].size > PacketObjectSize(rawCalls[2].type)
    /\ RawCallValid(rawCalls[3])
    /\ Len(rawFile) = 8 + 16 + rawCalls[3].size

\* C17: the file is the 8-byte magic followed by one record per valid call,
\* in call order, and nothing else; a sequential reader recovers type,
\* reserved zero bytes, timestamp, size and payload of every valid call.
C17_RawLogRoundTrip ==
    LET valid == SelectSeq(rawCalls, RawCallValid)
        read  == ReadRecords(SubSeq(rawFile, 9, Len(rawFile)))
    IN  /\ SubSeq(rawFile, 1, 8) = << 76, 50, 82, 65, 87, 48, 49, 0 >>
        /\ read.rest = 0
        /\ read.recs = [i \in 1..Len(valid) |-> RecordOfCall(valid[i])]

\* C17, witness: valid and malformed calls mixed; a record of the maximum
\* size of its type and a shorter one of another type are in the file
C17_Witness ==
    /\ Len(rawCalls) = 3
    /\ rawCalls[1].size = PacketObjectSize(rawCalls[1].type)
    /\ ~RawCallValid(rawCalls[2])
    /\ RawCallValid(rawCalls[3])
    /\ rawCalls[3].size < PacketObjectSize(rawCalls[3].type)
    /\ rawCalls[3].type # rawCalls[1].type
    /\ rawCalls[3].ts # rawCalls[1].ts
    /\ Len(ReadRecords(SubSeq(rawFile, 9, Len(rawFile))).recs) = 2

(***************************************************************************)
(* Properties of the point-processing engine.                              *)
(***************************************************************************)
Min2(a, b) == IF a < b THEN a ELSE b

\* the least element of a non-empty set of integers
Least(S) == CHOOSE m \in S : \A n \in S : m <= n

\* x^2 + y^2 of a stored sample
PlanarSq(p) == p.x * p.x + p.y * p.y

\* the slots whose sample has z in [z_min, z_max]
InBand(z_min, z_max) == {i \in Slots : buffer_[i].z >= z_min /\ buffer_[i].z <= z_max}

\* C5: on a full buffer with a sample in the band, distance(z_min, z_max) is
\* the square root of the least x^2 + y^2 over the samples in the band; it
\* is the 5000 sentinel only when no sample is in the band.
C5_DistanceIsMinimum ==
    (obs.op = "distance" /\ size_ = kCapacity) =>
        LET band == InBand(obs.z_min, obs.z_max)
        IN  IF band = {}
            THEN obs.d = NoObstacle
            ELSE /\ obs.d = Sqrt(Least({PlanarSq(buffer_[i]) : i \in band}))
                 /\ obs.d # NoObstacle

\* C6: n pushes after a clear() (or construction) leave size_ = min(n,
\* kCapacity), and the j-th of them (from 0) is at slot j mod kCapacity
\* unless a later one has overwritten it: the valid slots hold the last
\* min(n, kCapacity) samples pushed.
C6_RingHoldsLastPushed ==
    LET n == Len(pushed)
    IN  /\ size_ = Min2(n, kCapacity)
        /\ head_ = n % kCapacity
        /\ \A j \in 0..(n - 1) :
              (j >= n - kCapacity) => buffer_[j % kCapacity] = pushed[j + 1]

\* C6, witness: kCapacity + k samples (k > 0) have been pushed since a clear()
C6_Witness ==
    /\ Len(pushed) > kCapacity
    /\ obs.op = "updateCloud"
    /\ size_ = kCapacity

\* the chassis box in the robot frame
InChassisBox(x, y) == -50 < x /\ x < 20 /\ -20 < y /\ y < 20

\* the robot-frame sample of an input point
ExpectedSample(stamp, pt) ==
    Sample(TransformCoord(1, pt), TransformCoord(2, pt), TransformCoord(3, pt),
           pt.intensity, stamp + pt.time, pt.ring)

\* one sample per input point outside the chassis box, in input order
RECURSIVE ExpectedSamples(_, _)
ExpectedSamples(stamp, pts) ==
    IF pts = << >> THEN << >>
    ELSE LET e == ExpectedSample(stamp, Head(pts))
         IN  (IF InChassisBox(e.x, e.y) THEN << >> ELSE << e >>)
                \o ExpectedSamples(stamp, Tail(pts))

\* C7: one updateCloud(cloud) pushes exactly one sample for each input point
\* whose transformed (x, y) is outside the chassis box, in input order, with
\* time = cloud.stamp + point.time and the point's intensity and ring; the
\* valid-sample count grows by their number, saturating at kCapacity.
C7_UpdatePushesOutsidePoints ==
    (obs.op = "updateCloud") =>
        LET exp == ExpectedSamples(obs.cloud.stamp, obs.cloud.points)
            n   == Len(exp)
            h   == obs.before.head
            written == {(h + j) % kCapacity : j \in 0..(n - 1)}
        IN  /\ size_ = Min2(obs.before.size + n, kCapacity)
            /\ head_ = (h + n) % kCapacity
            /\ \A j \in 0..(n - 1) :
                  (j >= n - kCapacity) => buffer_[(h + j) % kCapacity] = exp[j + 1]
            /\ \A i \in Slots \ written : buffer_[i] = obs.before.buffer[i]

\* C32: a push dumps the buffer exactly when the number of samples pushed
\* since the last clear() (or construction) becomes a positive multiple of
\* kCapacity, once, and no other push does; a dump has kCapacity vertices
\* and its file holds all kCapacity slots, which are the last kCapacity
\* samples pushed.
C32_DumpOnMultiplesOfCapacity ==
    (obs.op = "updateCloud") =>
        LET k    == Len(ExpectedSamples(obs.cloud.stamp, obs.cloud.points))
            n0   == Len(pushed) - k
            due  == {n \in (n0 + 1)..(n0 + k) : n > 0 /\ n % kCapacity = 0}
            made == {obs.dumps[i].push + n0 : i \in 1..Len(obs.dumps)}
        IN  /\ made = due
            /\ Len(obs.dumps) = Cardinality(due)
            /\ \A i \in 1..Len(obs.dumps) :
                  LET d == obs.dumps[i].dump
                      n == obs.dumps[i].push + n0
                  IN  /\ d.vertex = kCapacity
                      /\ d.file =>
                            d.lines = [j \in 1..kCapacity |-> pushed[n - kCapacity + j]]

\* C32, witness: the second wrap of the write cursor since the last clear()
\* falls on the first of the two pushes of an updateCloud, and its dump is
\* written
C32_Witness ==
    /\ obs.op = "updateCloud"
    /\ Len(pushed) = 2 * kCapacity + 1
    /\ Len(obs.dumps) = 1
    /\ obs.dumps[1].push = 1
    /\ obs.dumps[1].dump.file
    /\ obs.dumps[1].dump.vertex = kCapacity

\* C7, witness: an updateCloud of a cloud with a point inside the box and a
\* point outside it, on a buffer that was not full
C7_Witness ==
    /\ obs.op = "updateCloud"
    /\ obs.before.size < kCapacity
    /\ Len(obs.cloud.points) = 2
    /\ Len(ExpectedSamples(obs.cloud.stamp, obs.cloud.points)) = 1
    /\ size_ = obs.before.size + 1

(***************************************************************************)
(* Properties of the worker loop.                                          *)
(***************************************************************************)
\* the packet the current iteration pulled
LastPull == pulls[Len(pulls)]

\* the engine, the IMU statistics or the raw log are left as they are
LoopKeepsEngine == UNCHANGED << buffer_, head_, size_, pushed >>
LoopKeepsRawLog == UNCHANGED << rawFile, rawCalls >>

\* C27: every packet pulled with tag point, imu or version is handed to the
\* raw logger with its capture timestamp before anything else is done with
\* it, then dispatched by tag: a point packet leads to at most one
\* updateCloud, an imu packet to the IMU statistics only, a version packet
\* to nothing further; a pull without a packet changes nothing but the time.
C27_LogThenDispatch ==
    [][ /\ (lpc.at = "pull" /\ pulls' # pulls) =>
              /\ lpc'.at = "log" /\ LastPull'.ts = monoNow'
              /\ LoopKeepsEngine /\ LoopKeepsRawLog /\ imuN' = imuN
        /\ (lpc.at = "pull" /\ pulls' = pulls) =>
              /\ lpc' = lpc
              /\ LoopKeepsEngine /\ LoopKeepsRawLog /\ imuN' = imuN
        /\ lpc.at = "log" =>
              /\ Len(rawCalls') = Len(pulls)
              /\ rawCalls' = Append(rawCalls,
                      [type |-> IF LastPull.tag = "point" THEN 1
                                ELSE IF LastPull.tag = "imu" THEN 2 ELSE 3,
                       size |-> LastPull.size, ts |-> LastPull.ts,
                       data |-> rawCalls'[Len(pulls)].data])
              /\ LoopKeepsEngine /\ imuN' = imuN
              /\ lpc'.at = (IF LastPull.tag = "point" THEN "cloud"
                            ELSE IF LastPull.tag = "imu" THEN "imu" ELSE "pull")
        /\ lpc.at = "cloud" =>
              /\ LastPull.tag = "point" /\ Len(rawCalls) = Len(pulls)
              /\ LoopKeepsRawLog /\ imuN' = imuN /\ lpc'.at = "pull"
              /\ \/ LoopKeepsEngine
                 \/ \E cloud \in WorkerClouds :
                       /\ pushed' = pushed \o ExpectedSamples(cloud.stamp, cloud.points)
                       /\ [buffer |-> buffer_', head |-> head_', size |-> size_']
                             = updateCloud(PP, cloud)
        /\ lpc.at = "imu" =>
              /\ LastPull.tag = "imu" /\ Len(rawCalls) = Len(pulls)
              /\ LoopKeepsRawLog /\ LoopKeepsEngine /\ lpc'.at = "pull" ]_vars

\* C27, witness: a point packet that led to an update, an imu packet that
\* was counted and a version packet have been handled, each logged
C27_Witness ==
    /\ Len(pulls) = 3 /\ lpc.at = "pull"
    /\ {pulls[i].tag : i \in 1..3} = PacketTags
    /\ Len(rawCalls) = 3
    /\ pushed # << >>
    /\ imuN = 1

\* a pulled packet whose declared size the raw logger accepts
PullValid(q) == q.size >= 1 /\ q.size <= PacketObjectSize(RawTypeOf(q.tag))

\* C28: the records of the raw log are those of the packets pulled (and
\* handled by the write call) so far, in the order of the pulls, and the
\* timestamps of consecutive records do not decrease.
C28_RawLogInPullOrder ==
    LET n    == IF lpc.at = "log" THEN Len(pulls) - 1 ELSE Len(pulls)
        exp  == SelectSeq(SubSeq(pulls, 1, n), PullValid)
        read == ReadRecords(SubSeq(rawFile, 9, Len(rawFile))).recs
    IN  /\ Len(read) = Len(exp)
        /\ \A i \in 1..Len(exp) :
              /\ read[i].type = RawTypeOf(exp[i].tag)
              /\ read[i].ts = exp[i].ts
              /\ read[i].size = exp[i].size
        /\ \A i \in 1..(Len(read) - 1) : read[i].ts <= read[i + 1].ts

\* C28, witness: three records of different tags in the file, the clock
\* having advanced between the first and the last
C28_Witness ==
    LET read == ReadRecords(SubSeq(rawFile, 9, Len(rawFile))).recs
    IN  /\ Len(read) = 3
        /\ {read[i].type : i \in 1..3} = RawRecordTypes
        /\ read[1].ts < read[3].ts
        /\ read[1].ts = read[2].ts

\* C34: shutdown of the snapshot logger terminates: once stop() has been
\* invoked the logger thread leaves loop() and stop() returns, also when the
\* notification of stop() did not wake the thread and its wait runs to the
\* timeout; a later stop() call changes nothing of the logger.
C34_StopTerminates ==
    /\ (plyStop.at = "join") ~> (plyStop.at = "returned" /\ plyPc.at = "done")
    /\ [][(plyStop'.again /\ ~plyStop.again) =>
            /\ ~plyRunning
            /\ plyStop'.at = plyStop.at
            /\ UNCHANGED << plyNow, plyBuffer, last_flush_, plyPc, plyFiles,
                            plyPushes, plyRunning, plyMtx >>]_vars

\* C34, witness: stop() has returned although the logger thread's wait after
\* the stop ended only at its timeout, and a second stop() call has returned
C34_Witness ==
    /\ plyStop.at = "returned"
    /\ plyStop.woke = "timeout"
    /\ plyStop.again
    /\ plyPc.at = "done"

\* C24: the self-occlusion filter works on robot-frame coordinates and no
\* occluded point is stored: every valid sample (index < size_) has (x, y)
\* outside the chassis box, and a cloud of the sensor-frame origin alone
\* (which the transform maps to the robot-frame origin) yields no sample.
C24_NoOccludedSampleValid ==
    /\ \A i \in Slots : i < size_ => ~InChassisBox(buffer_[i].x, buffer_[i].y)
    /\ ExpectedSample(0, PtOrigin).x = 0 /\ ExpectedSample(0, PtOrigin).y = 0
    /\ \A st \in PPStamps : SamplesOfCloud([stamp |-> st, points |-> << PtOrigin >>]) = << >>

=============================================================================
